---- MODULE Spec2Model ----
(***************************************************************************)
(* almighty-push: a jj stack pusher that keeps one GitHub pull request per *)
(* revision of the stack.  The model follows src/almighty_push.py.         *)
(*                                                                         *)
(* Strings are modelled by what the code does with them:                   *)
(*  - a change id (change_id.short(), 12 characters) is a sequence of      *)
(*    three chunks: characters 0-5, 6-7 and 8-11, so that change_id[:6],   *)
(*    change_id[:8] and change_id[:12] are its prefixes of 1, 2, 3 chunks; *)
(*  - a branch / bookmark name is a record [pfx, body]: the literal prefix *)
(*    ("push-", "changes/" or none) and the chunks that follow it;         *)
(*    "s in name" is a contiguous-chunk search in the body.                *)
(*  - a pull request URL is the sequence of its "/"-separated parts.       *)
(***************************************************************************)
EXTENDS Integers, Sequences, FiniteSets, TLC

(* ------------------------------ bounds -------------------------------- *)
\* Spec: runs of main, user edits between them, and deviations (a failing
\* command, or a run with flags) in one behaviour
MaxRuns == 2
MaxEdits == 1
MaxDev == 1
\* SpecHistory: longer histories of plain runs (no flags, no failing command)
HistRuns == 3
HistEdits == 2
HistDev == 0
\* SpecReturn: what follows a closure (one more edit, one more run)
ReturnRuns == 1
ReturnEdits == 1
ReturnDev == 1
\* SpecUser: the user's own branch and request next to the published stack
UserRuns == 1
UserEdits == 1
UserDev == 1
\* SpecFile: the state file is damaged after a publication
FileRuns == 1
FileEdits == 1
FileDev == 1
\* SpecInterrupt: the user may interrupt the run (one deviation)
IntrRuns == 1
IntrEdits == 1
IntrDev == 1
\* SpecOrphan: a published change has left the stack; two runs follow
OrphanRuns == 2
OrphanEdits == 2
OrphanDev == 1
\* pull requests the host holds
MaxPRs == 4
\* bookmarks that `jj log -r bookmarks()` prints as name* or name@origin
MaxMarkers == 1

(* --------------------------- program constants ------------------------ *)
PUSH_BRANCH_PREFIX == "push-"
CHANGES_BRANCH_PREFIX == "changes/"

Name(p, b) == [pfx |-> p, body |-> b]
NoName == Name("", <<>>)
DEFAULT_BASE_BRANCH == Name("", <<"main">>)

(* ------------------------------ universe ------------------------------ *)
cKLM == <<"kkkkkk", "ll", "mmmm">>
cKLN == <<"kkkkkk", "ll", "nnnn">>
cPQR == <<"pppppp", "qq", "rrrr">>
ChangeIds == {cKLM, cKLN, cPQR}
\* the ancestry order in which the changes sit when they are in the stack
StackOrder == <<cKLM, cPQR, cKLN>>

\* Python slice change_id[:n] for the n the code uses
Chunks(n) == CASE n = 6 -> 1 [] n = 8 -> 2 [] n = 12 -> 3
Take(cid, n) == SubSeq(cid, 1, IF Chunks(n) < Len(cid) THEN Chunks(n) ELSE Len(cid))

\* Python "s in name"
InName(s, name) ==
  \E i \in 0..(Len(name.body) - Len(s)) : SubSeq(name.body, i + 1, i + Len(s)) = s

\* what `jj git push --change X` names the bookmark it creates
JjPushName(cid) == Name(PUSH_BRANCH_PREFIX, cid)
ShortName(cid) == Name(PUSH_BRANCH_PREFIX, Take(cid, 8))

(* ------------------------------ dicts --------------------------------- *)
EmptyDict == [x \in {} |-> 0]
DictSet(d, k, v) == [x \in (DOMAIN d) \cup {k} |-> IF x = k THEN v ELSE d[x]]
DictDel(d, k) == [x \in (DOMAIN d) \ {k} |-> d[x]]
Range(s) == {s[i] : i \in DOMAIN s}
\* a function over 1..n as an explicit sequence
AsSeq(f) == <<>> \o f

RECURSIVE SeqOfSet(_)
\* some fixed enumeration of a finite set
SeqOfSet(S) == IF S = {} THEN <<>>
               ELSE LET x == CHOOSE y \in S : TRUE IN <<x>> \o SeqOfSet(S \ {x})

RECURSIVE Perms(_)
\* all orders in which the elements of S can be listed
Perms(S) == IF S = {} THEN {<<>>}
            ELSE UNION {{<<x>> \o p : p \in Perms(S \ {x})} : x \in S}

RECURSIVE Filter(_, _)
\* the subsequence of s whose elements are in S
Filter(s, S) == IF s = <<>> THEN <<>>
                ELSE (IF Head(s) \in S THEN <<Head(s)>> ELSE <<>>) \o Filter(Tail(s), S)

(* ----------------------- JujutsuClient (pure parts) ------------------- *)
\* a prefix test that takes every name for one of the tool's own
AnyBookmark(name) == TRUE

\* _is_managed_bookmark, and the same startswith tests in get_existing_branches
\* and close_orphaned_prs
IsManagedBookmark(name) ==
  name.pfx = PUSH_BRANCH_PREFIX \/ name.pfx = CHANGES_BRANCH_PREFIX

\* One line of `jj log`: change id, commit id, EMPTY|NOTEMPTY, first line of
\* the description, joined by single spaces.  The fields of a line:
Line(cid, empty, desc) == [change_id |-> cid, empty |-> empty, desc |-> desc]
CommitOf(cid) == <<"commit">> \o cid

\* result.stdout.strip().split('\n') followed by line.split(' ', 3): the parts
\* of line i of n.  strip() removes the trailing blank of the last line only,
\* so an empty description leaves an empty fourth part except on the last line.
Parts(line, isLast) ==
  LET flag == IF line.empty THEN "EMPTY" ELSE "NOTEMPTY"
      three == <<line.change_id, CommitOf(line.change_id), flag>>
  IN IF line.desc = "" /\ isLast THEN three ELSE three \o <<line.desc>>

Revision(cid, desc) ==
  [change_id |-> cid, commit_id |-> CommitOf(cid), description |-> desc,
   branch_name |-> NoName, pr_url |-> <<>>]

ParseRevisionLine(parts) ==
  LET description == IF Len(parts) > 3 THEN parts[4] ELSE "(no description)"
  IN IF parts[3] = "EMPTY" THEN Revision(parts[1], "EMPTY")
     ELSE Revision(parts[1], description)

RECURSIVE ParseLines(_, _)
\* the loop of get_revisions_above_base over the output lines, in output order
ParseLines(lines, i) ==
  IF i > Len(lines) THEN <<>>
  ELSE LET revision == ParseRevisionLine(Parts(lines[i], i = Len(lines)))
       IN (IF revision.description = "EMPTY" THEN <<>> ELSE <<revision>>)
          \o ParseLines(lines, i + 1)

Reverse(s) == AsSeq([i \in 1..Len(s) |-> s[Len(s) + 1 - i]])

\* the revisions get_revisions_above_base builds, oldest first
RevisionsAboveBase(lines) == Reverse(ParseLines(lines, 1))

\* _validate_revisions: TRUE when it lets the run go on
ValidateRevisions(revs) ==
  \A i \in DOMAIN revs : revs[i].description # "(no description)"

\* _parse_push_output, for one revision: the first branch name found in the
\* output that contains change_id[:6], [:8] or [:12], else the assumed name
FallbackName(cid) == Name(PUSH_BRANCH_PREFIX, Take(cid, 12))

RECURSIVE FirstWith(_, _, _)
\* the first element of seq s that contains one of the prefixes of cid of the
\* lengths in ns; NoName when there is none
FirstWith(s, cid, ns) ==
  IF s = <<>> THEN NoName
  ELSE IF \E n \in ns : InName(Take(cid, n), Head(s)) THEN Head(s)
       ELSE FirstWith(Tail(s), cid, ns)

\* _parse_push_output without its "assume standard pattern" branch
ParseWithoutFallback(branches_found, rev) == FirstWith(branches_found, rev.change_id, {6, 8, 12})

ParsePushOutput(branches_found, rev) ==
  LET branch == FirstWith(branches_found, rev.change_id, {6, 8, 12})
  IN IF branch # NoName THEN branch ELSE FallbackName(rev.change_id)

\* _extract_change_ids on one word of an operation description: kept when it
\* has 8 to 12 characters (chunk widths 6, 2, 4)
Width(i) == CASE i = 1 -> 6 [] i = 2 -> 2 [] OTHER -> 4
RECURSIVE CharLen(_, _)
CharLen(word, i) == IF i > Len(word) THEN 0 ELSE Width(i) + CharLen(word, i + 1)
ExtractChangeIds(words) == {w \in words : 8 <= CharLen(w, 1) /\ CharLen(w, 1) <= 12}

(* ------------------------ AlmightyPush (pure parts) ------------------- *)
\* _find_existing_branch over the branches in listing order
FindExistingBranch(cid, listing) == FirstWith(listing, cid, {8, 12})

(* ------------------------ GitHubClient (pure parts) ------------------- *)
ExtractChangeIdFromBranch(name) == IF IsManagedBookmark(name) THEN name.body ELSE <<>>

R_DELETED == "bookmark was deleted (likely squashed or abandoned)"
R_OPLOG == "squashed or abandoned according to operation log"
R_NOTINSTACK == "no longer in the current stack"
R_REMOVED == "removed from the stack"
R_SAMECOMMIT == "squashed into same commit as earlier PR"
R_NONE == ""

\* _should_close_pr: <<should_close, close_reason>>
ShouldClosePr(branch_name, change_id, disappeared_bookmarks, squashed_commits, previous_prs, active_change_ids, local_bookmarks, active_branches) ==
  IF branch_name \in disappeared_bookmarks THEN <<TRUE, R_DELETED>>
  ELSE IF change_id = <<>> THEN <<FALSE, R_NONE>>
  ELSE IF change_id \in squashed_commits THEN <<TRUE, R_OPLOG>>
  ELSE IF change_id \in DOMAIN previous_prs /\ change_id \notin active_change_ids
       THEN <<TRUE, R_NOTINSTACK>>
  ELSE IF /\ branch_name \notin local_bookmarks
          /\ branch_name \notin active_branches
          /\ change_id \notin active_change_ids
       THEN <<TRUE, R_REMOVED>>
  ELSE <<FALSE, R_NONE>>

\* str.rstrip('*')
RECURSIVE RstripBody(_)
RstripBody(b) == IF b # <<>> /\ b[Len(b)] = "*" THEN RstripBody(SubSeq(b, 1, Len(b) - 1)) ELSE b
Rstrip(name) == Name(name.pfx, RstripBody(name.body))

\* list.sort(key=number) on a sequence of pull request numbers (insertion sort)
RECURSIVE SortNums(_)
Insert(n, s) ==
  LET k == Cardinality({i \in DOMAIN s : s[i] <= n})
  IN SubSeq(s, 1, k) \o <<n>> \o SubSeq(s, k + 1, Len(s))
SortNums(s) == IF s = <<>> THEN <<>> ELSE Insert(s[Len(s)], SortNums(SubSeq(s, 1, Len(s) - 1)))

\* the pull request of the list `open` (numbers, in listing order) that the
\* inner loop of _handle_squashed_bookmarks finds for a bookmark: the first
\* whose head is the bookmark without trailing stars; 0 when there is none
RECURSIVE FirstPrFor(_, _, _)
FirstPrFor(open, heads, clean) ==
  IF open = <<>> THEN 0
  ELSE IF heads[Head(open)] = clean THEN Head(open)
       ELSE FirstPrFor(Tail(open), heads, clean)

RECURSIVE PrNumbersFor(_, _, _)
PrNumbersFor(bms, open, heads) ==
  IF bms = <<>> THEN <<>>
  ELSE LET n == FirstPrFor(open, heads, Rstrip(Head(bms)))
       IN (IF n = 0 THEN <<>> ELSE <<n>>) \o PrNumbersFor(Tail(bms), open, heads)

\* a same-commit rule that keeps none of the requests found
AllFound(sorted) == sorted

\* the pull requests _handle_squashed_bookmarks marks for closing out of those
\* found for one commit, sorted by number: all but the first
Duplicates(sorted) == Tail(sorted)

RECURSIVE HandleSquashedFrom(_, _, _, _, _, _)
\* the loop of _handle_squashed_bookmarks over the commits in listing order;
\* acc = [orphaned: numbers marked (in order), squashed: names marked, extra:
\* the branches without a pull request that it adds to branches_to_delete]
HandleSquashedFrom(same, open, heads, active_branches, existing_branches, acc) ==
  IF same = <<>> THEN acc
  ELSE LET bms == Head(same)
           found == PrNumbersFor(bms, open, heads)
           dups == IF Len(bms) > 1 /\ Len(found) > 1
                   THEN Duplicates(SortNums(found)) ELSE <<>>
           squashed == acc.squashed \cup {heads[dups[i]] : i \in DOMAIN dups}
           extra == IF Len(bms) > 1
                    THEN {Rstrip(bms[i]) : i \in DOMAIN bms} \cap
                         (existing_branches \ (active_branches \cup squashed))
                    ELSE {}
       IN HandleSquashedFrom(Tail(same), open, heads, active_branches, existing_branches,
                             [orphaned |-> acc.orphaned \o dups,
                              squashed |-> squashed,
                              extra |-> acc.extra \cup extra])

HandleSquashedBookmarks(same, open, heads, active_branches, existing_branches) ==
  HandleSquashedFrom(same, open, heads, active_branches, existing_branches,
                     [orphaned |-> <<>>, squashed |-> {}, extra |-> {}])

\* _parse_bookmarks: the managed names of one line, without repetition; a
\* name with a remote suffix whose part before "@" is managed becomes base*
HasAt(name) == \E i \in DOMAIN name.body : name.body[i] = "@"
BeforeAt(name) ==
  LET k == CHOOSE i \in DOMAIN name.body :
             name.body[i] = "@" /\ \A j \in 1..(i - 1) : name.body[j] # "@"
  IN Name(name.pfx, SubSeq(name.body, 1, k - 1))
Star(name) == Name(name.pfx, name.body \o <<"*">>)

RECURSIVE ParseBookmarksFrom(_, _)
ParseBookmarksFrom(tokens, acc) ==
  IF tokens = <<>> THEN acc
  ELSE LET bookmark == Head(tokens)
           add == IF IsManagedBookmark(bookmark) THEN <<bookmark>>
                  ELSE IF HasAt(bookmark) /\ IsManagedBookmark(BeforeAt(bookmark))
                       THEN <<Star(BeforeAt(bookmark))>>
                  ELSE <<>>
       IN ParseBookmarksFrom(Tail(tokens),
            IF add # <<>> /\ add[1] \notin Range(acc) THEN acc \o add ELSE acc)
ParseBookmarks(tokens) == ParseBookmarksFrom(tokens, <<>>)

RECURSIVE BookmarksOnSameCommit(_)
\* get_bookmarks_on_same_commit over the output lines (one per commit): the
\* bookmark lists that have more than one managed name
BookmarksOnSameCommit(lines) ==
  IF lines = <<>> THEN <<>>
  ELSE LET bms == ParseBookmarks(Head(lines))
       IN (IF Len(bms) > 1 THEN <<bms>> ELSE <<>>) \o BookmarksOnSameCommit(Tail(lines))

(* ------------------------------- state -------------------------------- *)
VARIABLES
  range,             \* the lines `jj log -r main@origin..@` prints, newest first
  bookmarks,         \* local bookmarks: name -> the change it points at
  oplog,             \* words of the squash/abandon lines within the op log window
  remote,            \* branch names on GitHub
  prs,               \* pull requests by number: [head, base, state]
  stateFile,         \* the .almighty document
  pc,                \* where main() is
  args,              \* the flags of the run
  revisions,         \* main's list of Revision objects
  existing_branches, \* what push_revisions returned
  closed_prs,        \* what close_orphaned_prs returned
  exitCode,          \* main's return value (or sys.exit), -1 while running
  repoOk,            \* whether get_repo_info resolves owner/repo in this run
  log,               \* the commands this run has issued
  callsOk,           \* no external command of this run has failed so far
  dev,               \* deviations so far: failed commands and runs with flags
  failures,          \* the commands of this run that have failed
  runs, edits,       \* runs started, user edits made
  limits,            \* the bounds of the behaviour: [runs, edits, dev], and
                     \* whether the user may interrupt a run (intr)
  last               \* at the start of the run: the state file and the requests as
                     \* they were, and, when a finished run came just before
                     \* (valid), its flags and whether it went without a failure

vars == <<range, bookmarks, oplog, remote, prs, stateFile, pc, args, revisions,
          existing_branches, closed_prs, exitCode, repoOk, log, callsOk, dev,
          failures, runs, edits, limits, last>>
envVars == <<range, bookmarks, oplog>>

EmptyState == [kind |-> "missing", prs |-> EmptyDict, closed |-> EmptyDict, bookmarks |-> {}]
\* created holds <<head, base, n>>: a create issued while the head branch had
\* the request n (0: none); closed holds <<number, reason>>; commented holds
\* <<number, "closed">> or <<number, "reopened">>, the comment's subject;
\* found holds branches_found of _parse_push_output, in the order of the output;
\* order holds the stack positions of the creates and base edits, as issued;
\* batch holds the change ids of the one `jj git push --change ... --change ...`
\* of _push_new_branches, in the order of the command (empty: not issued)
EmptyLog == [pushed |-> {}, created |-> {}, edited |-> {}, closed |-> {}, reopened |-> {},
             commented |-> {}, unmapped |-> {}, deleted |-> {}, refreshed |-> {},
             wrote |-> FALSE, found |-> <<>>, order |-> <<>>, batch |-> <<>>]
NoArgs == [dry_run |-> FALSE, no_pr |-> FALSE, no_close_orphaned |-> FALSE,
           delete_branches |-> FALSE]
Args == [dry_run : BOOLEAN, no_pr : BOOLEAN, no_close_orphaned : BOOLEAN,
         delete_branches : BOOLEAN]
\* no run yet since the last edit
NoLast == [valid |-> FALSE, args |-> NoArgs, clean |-> FALSE, state |-> EmptyState,
           prs |-> <<>>, closed |-> {}]

\* subsets of S with at most k elements: the calls that fail in a step
RECURSIVE UpTo(_, _)
UpTo(S, k) == IF k <= 0 THEN {{}}
              ELSE {{}} \cup {T \cup {x} : x \in S, T \in UpTo(S, k - 1)}
Faults(S) == UpTo(S, limits.dev - dev)

\* Ctrl-C while a command runs: KeyboardInterrupt is raised in the call.
\* INTERRUPTED: it leaves main through `except KeyboardInterrupt`;
\* INTERRUPTED_LOOKUP: it is raised in get_repo_info under
\* get_existing_branches, whose bare `except:` catches it
INTERRUPTED == <<"call", "interrupt">>
INTERRUPTED_LOOKUP == <<"call", "interrupt_lookup">>
Interrupts(S) == IF limits.intr THEN S ELSE {}

\* the lines of a stack made of the changes of C, all with text and content
NormalLines(C) ==
  LET olderFirst == Filter(StackOrder, C)
  IN Reverse([i \in DOMAIN olderFirst |-> Line(olderFirst[i], FALSE, "text")])
InRange(cid) == \E i \in DOMAIN range : range[i].change_id = cid

(* ---------------------- what the commands answer ---------------------- *)
\* The kinds of the state file: "missing"; "doc", a JSON object written by
\* save; "garbage", text that json.load rejects; "array", a JSON document
\* that is not an object (a list, a number, null).
\* load(): a missing or unparsable file reads as the empty document; a
\* document of another shape is returned as it is, and its first use
\* (state.get, state[...] = ...) raises
Load(file) == IF file.kind = "doc" THEN file ELSE EmptyState
Raises(file) == file.kind = "array"

\* get_local_bookmarks: the managed names of `jj bookmark list`
LocalBookmarks(bm) == {b \in DOMAIN bm : IsManagedBookmark(b)}

\* get_disappeared_bookmarks
DisappearedBookmarks(file, current_bookmarks) ==
  {b \in Load(file).bookmarks \ current_bookmarks : IsManagedBookmark(b)}

\* `jj log -r bookmarks()`: one line per commit, the names pointing at it.  A
\* local bookmark that differs from its branch on the remote is printed as
\* name*, and a branch of the remote that has no local bookmark is printed as
\* name@origin on the commit it points at.  shown = [starred: the local names
\* printed with a star, at: name -> commit for the remote-only names printed].
AtOrigin(name) == Name(name.pfx, name.body \o <<"@", "origin">>)
Rendered(b, shown) == IF b \in shown.starred THEN Name(b.pfx, b.body \o <<"*">>) ELSE b
RemoteOnly(bm, rem) == {r \in rem : r \notin DOMAIN bm}
Renderings(bm, rem) ==
  {[starred |-> S, at |-> f] :
     S \in SUBSET (DOMAIN bm \cap rem),
     f \in UNION {[T -> {bm[b] : b \in DOMAIN bm}] : T \in SUBSET RemoteOnly(bm, rem)}}
BoundedRenderings(bm, rem) ==
  {x \in Renderings(bm, rem) : Cardinality(x.starred) + Cardinality(DOMAIN x.at) <= MaxMarkers}
BookmarkLines(bm, shown) ==
  LET targets == {bm[b] : b \in DOMAIN bm}
  IN SeqOfSet({SeqOfSet({Rendered(b, shown) : b \in {x \in DOMAIN bm : bm[x] = t}}
                        \cup {AtOrigin(r) : r \in {x \in DOMAIN shown.at : shown.at[x] = t}}) :
               t \in targets})

\* get_existing_branches: the managed names among the branches listed
ManagedBranches(branches) == {b \in branches : IsManagedBookmark(b)}

\* `gh pr list --state open`: numbers of the open requests, newest first
RECURSIVE OpenFrom(_, _)
OpenFrom(q, n) == IF n = 0 THEN <<>>
                  ELSE (IF q[n].state = "OPEN" THEN <<n>> ELSE <<>>) \o OpenFrom(q, n - 1)
OpenList(q) == OpenFrom(q, Len(q))
Heads(q) == AsSeq([n \in DOMAIN q |-> q[n].head])

Max(S) == CHOOSE x \in S : \A y \in S : y <= x
\* `gh pr view <branch>`: the request of that head branch, an open one first,
\* else the newest; 0 when the branch has none
ViewByBranch(q, branch) ==
  LET open == {n \in DOMAIN q : q[n].head = branch /\ q[n].state = "OPEN"}
      all == {n \in DOMAIN q : q[n].head = branch}
  IN IF open # {} THEN Max(open) ELSE IF all # {} THEN Max(all) ELSE 0

Url(n) == <<"https:", "github.com", "pull", n>>
\* Revision.extract_pr_number: int(pr_url.split('/')[-1])
ExtractPrNumber(url) == IF url = <<>> THEN 0 ELSE url[Len(url)]

(* ------------------------ reopen_pr_if_needed ------------------------- *)
\* a variant of reopen_pr_if_needed that never looks at the closed requests
ReopenNever(st, branch_name, F) == [st EXCEPT !.res = FALSE]

\* st = [file, prs, log, ok]; F = the calls that fail.  The state after the
\* call, with st.res = its return value.
ReopenPrIfNeeded(st, branch_name, F) ==
  LET state == Load(st.file)
      closed_prs_map == state.closed
      pr_number == closed_prs_map[branch_name].pr_number
      viewOk == <<"view_state", branch_name>> \notin F /\ pr_number \in DOMAIN st.prs
      reopenOk == /\ <<"reopen", branch_name>> \notin F
                  /\ ~\E m \in DOMAIN st.prs :
                        /\ m # pr_number /\ st.prs[m].state = "OPEN"
                        /\ st.prs[m].head = st.prs[pr_number].head
                        /\ st.prs[m].base = st.prs[pr_number].base
  IN IF branch_name \notin DOMAIN closed_prs_map THEN [st EXCEPT !.res = FALSE]
     ELSE IF ~viewOk THEN [st EXCEPT !.res = FALSE, !.ok = FALSE]
     ELSE IF st.prs[pr_number].state # "CLOSED" THEN [st EXCEPT !.res = FALSE]
     ELSE IF ~reopenOk
          THEN [st EXCEPT !.res = FALSE, !.ok = FALSE,
                          !.log.reopened = @ \cup {pr_number}]
     ELSE [st EXCEPT !.res = TRUE,
                     !.prs[pr_number].state = "OPEN",
                     !.log.reopened = @ \cup {pr_number},
                     !.log.commented = @ \cup {<<pr_number, "reopened">>},
                     !.log.unmapped = @ \cup {branch_name},
                     !.log.wrote = TRUE,
                     !.file = [state EXCEPT !.kind = "doc",
                                            !.closed = DictDel(closed_prs_map, branch_name)]]

RECURSIVE ReopenAll(_, _, _)
\* reopen_pr_if_needed for each branch name of a list, in order
ReopenAll(st, names, F) ==
  IF names = <<>> THEN st
  ELSE ReopenAll(ReopenPrIfNeeded(st, Head(names), F), Tail(names), F)

(* ------------------------- close_orphaned_prs ------------------------- *)
RECURSIVE OrphanLoop(_, _, _, _, _, _, _, _, _)
\* the loop over managed_prs: the <<number, reason>> of those to close
OrphanLoop(managed_prs, heads, squashed_into_same, disappeared_bookmarks, squashed_commits, previous_prs, active_change_ids, local_bookmarks, active_branches) ==
  IF managed_prs = <<>> THEN <<>>
  ELSE LET branch_name == heads[Head(managed_prs)]
           verdict == ShouldClosePr(branch_name, ExtractChangeIdFromBranch(branch_name),
                                    disappeared_bookmarks, squashed_commits, previous_prs,
                                    active_change_ids, local_bookmarks, active_branches)
           rest == OrphanLoop(Tail(managed_prs), heads, squashed_into_same,
                              disappeared_bookmarks, squashed_commits, previous_prs,
                              active_change_ids, local_bookmarks, active_branches)
       IN IF branch_name \in squashed_into_same THEN rest
          ELSE IF verdict[1] THEN <<<<Head(managed_prs), verdict[2]>>>> \o rest
          ELSE rest

RECURSIVE ClosePrsUntilFailure(_, _, _)
\* a _close_prs that gives up at the first close that fails
ClosePrsUntilFailure(st, orphaned_prs, F) ==
  IF orphaned_prs = <<>> THEN st
  ELSE LET pr_number == Head(orphaned_prs)[1]
           issued == [st EXCEPT !.log.commented = @ \cup {<<pr_number, "closed">>},
                                !.log.closed = @ \cup {Head(orphaned_prs)}]
       IN IF <<"close", pr_number>> \in F THEN [issued EXCEPT !.ok = FALSE]
          ELSE ClosePrsUntilFailure(
                 [issued EXCEPT !.prs[pr_number].state = "CLOSED",
                                !.closed = @ \o <<<<pr_number, st.prs[pr_number].head>>>>],
                 Tail(orphaned_prs), F)

RECURSIVE ClosePrs(_, _, _)
\* _close_prs: comment on and close each of orphaned_prs; st.closed collects
\* the (number, branch) of those whose close succeeded
ClosePrs(st, orphaned_prs, F) ==
  IF orphaned_prs = <<>> THEN st
  ELSE LET pr_number == Head(orphaned_prs)[1]
           issued == [st EXCEPT !.log.commented = @ \cup {<<pr_number, "closed">>},
                                !.log.closed = @ \cup {Head(orphaned_prs)}]
           done == IF <<"close", pr_number>> \in F THEN [issued EXCEPT !.ok = FALSE]
                   ELSE [issued EXCEPT !.prs[pr_number].state = "CLOSED",
                                       !.closed = @ \o <<<<pr_number, st.prs[pr_number].head>>>>]
       IN ClosePrs(done, Tail(orphaned_prs), F)

\* _delete_remote_branches
DeleteRemoteBranches(st, branches, F) ==
  [st EXCEPT !.log.deleted = @ \cup branches,
             !.remote = @ \ {b \in branches : <<"delete", b>> \notin F},
             !.ok = @ /\ \A b \in branches : <<"delete", b>> \notin F]

\* a close_orphaned_prs that deletes the branches it collected whatever the flag
DeletesAlways(delete_branches) == TRUE

\* whether close_orphaned_prs deletes the branches it collected
DeletesBranches(delete_branches) == delete_branches

\* close_orphaned_prs(current_revisions, jj_client, existing_branches,
\* delete_branches); given == FALSE stands for existing_branches=None.
\* st = [prs, remote, log, ok, closed, shown]; the result has st.closed = the
\* list returned; st.shown is how `jj log` prints the bookmarks.
CloseOrphanedPrs(st, current_revisions, given, branches, delete_branches, F) ==
  LET failed(call) == <<"call", call>> \in F
      existing == IF given THEN branches
                  ELSE IF failed("branches") THEN {} ELSE ManagedBranches(st.remote)
      local_bookmarks == IF failed("bookmarks") THEN {} ELSE LocalBookmarks(bookmarks)
      disappeared_bookmarks == DisappearedBookmarks(stateFile, local_bookmarks)
      squashed_commits == IF failed("oplog") THEN {} ELSE ExtractChangeIds(oplog)
      bookmarks_on_same_commit ==
        IF failed("samecommit") THEN <<>> ELSE BookmarksOnSameCommit(BookmarkLines(bookmarks, st.shown))
      previous_prs == Load(stateFile).prs
      open == OpenList(st.prs)
      heads == Heads(st.prs)
      managed_prs == Filter(open, {n \in DOMAIN st.prs : IsManagedBookmark(heads[n])})
      active_branches == {current_revisions[i].branch_name : i \in DOMAIN current_revisions}
                           \ {NoName}
      active_change_ids == {current_revisions[i].change_id : i \in DOMAIN current_revisions}
      sq == HandleSquashedBookmarks(bookmarks_on_same_commit, open, heads,
                                    active_branches, existing)
      others == OrphanLoop(managed_prs, heads, sq.squashed, disappeared_bookmarks,
                           squashed_commits, previous_prs, active_change_ids,
                           local_bookmarks, active_branches)
      orphaned_prs == [i \in DOMAIN sq.orphaned |-> <<sq.orphaned[i], R_SAMECOMMIT>>] \o others
      branches_to_delete == sq.squashed \cup sq.extra \cup {heads[others[i][1]] : i \in DOMAIN others}
      flagged == [st EXCEPT !.ok = @ /\ F \cap {<<"call", c>> : c \in {"branches", "bookmarks",
                                                   "oplog", "samecommit", "prlist"}} = {}]
      closedSt == ClosePrs(flagged, orphaned_prs, F)
  IN IF ~repoOk THEN st
     ELSE IF failed("prlist") THEN flagged
     ELSE IF orphaned_prs = <<>> THEN flagged
     ELSE IF branches_to_delete # {} /\ DeletesBranches(delete_branches)
          THEN DeleteRemoteBranches(closedSt, branches_to_delete, F)
     ELSE closedSt

\* the calls of close_orphaned_prs that can be made to fail
CloseCalls(given, delete_branches) ==
  {<<"call", c>> : c \in {"bookmarks", "oplog", "samecommit", "prlist"}}
  \cup (IF given THEN {} ELSE {<<"call", "branches">>})
  \cup {<<"close", n>> : n \in {m \in DOMAIN prs : prs[m].state = "OPEN"}}
  \cup (IF delete_branches THEN {<<"delete", b>> : b \in remote} ELSE {})

(* -------------------------- StateManager.save ------------------------- *)
Entry(rev) == [pr_number |-> ExtractPrNumber(rev.pr_url), pr_url |-> rev.pr_url,
               branch_name |-> rev.branch_name, commit_id |-> rev.commit_id,
               description |-> rev.description]

\* state['prs'] as save() rebuilds it
SavedPrs(state, revs) ==
  LET with == {i \in DOMAIN revs : revs[i].pr_url # <<>>}
  IN [cid \in {revs[i].change_id : i \in with} |->
        Entry(revs[Max({i \in with : revs[i].change_id = cid})])]

\* a closed_prs_map rebuilt from the closures of the run alone
ClosedNowOnly(map, closed) ==
  [b \in {closed[i][2] : i \in DOMAIN closed} |->
     [pr_number |-> closed[Max({i \in DOMAIN closed : closed[i][2] = b})][1], reason |-> "squashed"]]

RECURSIVE MergeClosed(_, _)
MergeClosed(map, closed) ==
  IF closed = <<>> THEN map
  ELSE MergeClosed(DictSet(map, Head(closed)[2],
                           [pr_number |-> Head(closed)[1], reason |-> "squashed"]),
                   Tail(closed))

\* the document save(revisions, closed_prs, local_bookmarks) writes
Save(file, revs, closed, local_bookmarks) ==
  LET state == Load(file)
  IN [kind |-> "doc",
      prs |-> SavedPrs(state, revs),
      closed |-> MergeClosed(state.closed, closed),
      bookmarks |-> local_bookmarks]

(* ------------------------ create_pull_requests ------------------------ *)
\* create_pull_request(revision, base_branch, stack_position, all_revisions)
\* for the revision at position i; st = [prs, revs, log, ok]
CreatePullRequest(st, i, base_branch, F) ==
  LET revision == st.revs[i]
      head == revision.branch_name
      existing_pr == IF <<"view", i>> \in F THEN 0 ELSE ViewByBranch(st.prs, head)
      viewed == [st EXCEPT !.ok = @ /\ <<"view", i>> \notin F]
      \* GitHub refuses a base equal to the head, and to retarget a closed request
      editOk == /\ <<"edit", i>> \notin F
                /\ base_branch # head
                /\ st.prs[existing_pr].state = "OPEN"
      \* GitHub refuses an empty title, and a second open request for the same
      \* head and base
      createOk == /\ <<"create", i>> \notin F
                  /\ base_branch # head
                  /\ revision.description # ""
                  /\ Len(st.prs) < MaxPRs
                  /\ ~\E m \in DOMAIN st.prs : /\ st.prs[m].state = "OPEN"
                                               /\ st.prs[m].head = head
                                               /\ st.prs[m].base = base_branch
  IN IF head = NoName THEN st
     ELSE IF existing_pr # 0
     THEN LET based ==
                IF st.prs[existing_pr].base = base_branch THEN viewed
                ELSE IF editOk
                     THEN [viewed EXCEPT !.prs[existing_pr].base = base_branch,
                                         !.log.edited = @ \cup {<<head, base_branch>>},
                                         !.log.order = Append(@, i)]
                     ELSE [viewed EXCEPT !.ok = FALSE,
                                         !.log.edited = @ \cup {<<head, base_branch>>},
                                         !.log.order = Append(@, i)]
          IN [based EXCEPT !.revs[i].pr_url = Url(existing_pr)]
     ELSE IF createOk
          THEN [viewed EXCEPT
                  !.prs = Append(@, [head |-> head, base |-> base_branch, state |-> "OPEN"]),
                  !.log.created = @ \cup {<<head, base_branch, ViewByBranch(st.prs, head)>>},
                  !.log.order = Append(@, i),
                  !.revs[i].pr_url = Url(Len(st.prs) + 1)]
          ELSE [viewed EXCEPT
                  !.ok = FALSE,
                  !.log.created = @ \cup {<<head, base_branch, ViewByBranch(st.prs, head)>>},
                  !.log.order = Append(@, i)]

\* the base create_pull_requests gives the revision at position i
BaseFor(revs, i) == IF i = 1 THEN DEFAULT_BASE_BRANCH ELSE revs[i - 1].branch_name

RECURSIVE CreateNewestFirst(_, _, _)
\* a create/update loop that takes the revisions newest first
CreateNewestFirst(st, i, F) ==
  IF i > Len(st.revs) THEN st
  ELSE LET j == Len(st.revs) - i + 1
       IN CreateNewestFirst(IF BaseFor(st.revs, j) = NoName THEN st
                            ELSE CreatePullRequest(st, j, BaseFor(st.revs, j), F), i + 1, F)

RECURSIVE CreateFrom(_, _, _)
\* the create/update loop of create_pull_requests from position i on
CreateFrom(st, i, F) ==
  IF i > Len(st.revs) THEN st
  ELSE CreateFrom(IF BaseFor(st.revs, i) = NoName THEN st
                  ELSE CreatePullRequest(st, i, BaseFor(st.revs, i), F), i + 1, F)

(* ------------------------------ pushing ------------------------------- *)
RECURSIVE UpdateExistingBranches(_, _, _, _)
\* _update_existing_branches over the positions in to_update;
\* st = [bm, remote, log, ok]
UpdateExistingBranches(st, revs, to_update, F) ==
  IF to_update = <<>> THEN st
  ELSE LET i == Head(to_update)
           rev == revs[i]
           byName == [st EXCEPT !.log.pushed = @ \cup {<<"branch", rev.branch_name>>}]
           nameOk == rev.branch_name \in DOMAIN st.bm /\ <<"push_b", i>> \notin F
           byChange == [byName EXCEPT !.log.pushed = @ \cup {<<"change", rev.change_id>>},
                                      !.ok = @ /\ <<"push_b", i>> \notin F]
           after ==
             IF nameOk THEN [byName EXCEPT !.remote = @ \cup {rev.branch_name}]
             ELSE IF <<"push_change", i>> \in F THEN [byChange EXCEPT !.ok = FALSE]
             ELSE [byChange EXCEPT
                     !.bm = DictSet(@, JjPushName(rev.change_id), rev.change_id),
                     !.remote = @ \cup {JjPushName(rev.change_id)}]
       IN UpdateExistingBranches(after, revs, Tail(to_update), F)

RECURSIVE NewBookmarks(_, _)
\* the bookmarks `jj git push --change ...` creates for the changes of a list
NewBookmarks(bm, cids) ==
  IF cids = <<>> THEN bm
  ELSE NewBookmarks(DictSet(bm, JjPushName(Head(cids)), Head(cids)), Tail(cids))

\* _categorize_revisions: each revision with the branch found for it, if any
Categorize(revs, listing) ==
  AsSeq([i \in DOMAIN revs |->
           [revs[i] EXCEPT !.branch_name = FindExistingBranch(revs[i].change_id, listing)]])

RECURSIVE Positions(_, _, _)
\* the positions of revs (from i on) that have / have no branch name
Positions(revs, i, named) ==
  IF i > Len(revs) THEN <<>>
  ELSE (IF (revs[i].branch_name # NoName) = named THEN <<i>> ELSE <<>>)
       \o Positions(revs, i + 1, named)

(* ------------------------------- Init ---------------------------------- *)
Fresh ==
  /\ range \in {NormalLines(C) : C \in SUBSET ChangeIds}
  /\ bookmarks = EmptyDict
  /\ oplog = {}
  /\ remote = {}
  /\ prs = <<>>
  /\ stateFile = EmptyState
  /\ pc = "idle"
  /\ args = NoArgs
  /\ revisions = <<>>
  /\ existing_branches = {}
  /\ closed_prs = <<>>
  /\ exitCode = -1
  /\ repoOk = TRUE
  /\ log = EmptyLog
  /\ callsOk = TRUE
  /\ dev = 0
  /\ failures = {}
  /\ runs = 0
  /\ edits = 0
  /\ last = NoLast

Init == Fresh /\ limits = [runs |-> MaxRuns, edits |-> MaxEdits, dev |-> MaxDev, intr |-> FALSE]
InitHistory ==
  Fresh /\ limits = [runs |-> HistRuns, edits |-> HistEdits, dev |-> HistDev, intr |-> FALSE]
InitInterrupt ==
  Fresh /\ limits = [runs |-> IntrRuns, edits |-> IntrEdits, dev |-> IntrDev, intr |-> TRUE]

\* What two plain runs of main leave behind: the stack klm, pqr was published
\* (requests 1 and 2); pqr then left the stack, with its bookmark kept or
\* deleted, and the next run closed request 2.
PublishedRevisions ==
  <<[Revision(cKLM, "text") EXCEPT !.branch_name = JjPushName(cKLM), !.pr_url = Url(1)],
    [Revision(cPQR, "text") EXCEPT !.branch_name = JjPushName(cPQR), !.pr_url = Url(2)]>>
PublishedBookmarks == NewBookmarks(EmptyDict, <<cKLM, cPQR>>)
PublishedState ==
  Save(EmptyState, PublishedRevisions, <<>>, LocalBookmarks(PublishedBookmarks))
AfterClosure(kept) ==
  LET bm == IF kept THEN PublishedBookmarks
            ELSE DictDel(PublishedBookmarks, JjPushName(cPQR))
  IN [bookmarks |-> bm,
      remote |-> {JjPushName(cKLM), JjPushName(cPQR)},
      prs |-> <<[head |-> JjPushName(cKLM), base |-> DEFAULT_BASE_BRANCH, state |-> "OPEN"],
                [head |-> JjPushName(cPQR), base |-> JjPushName(cKLM), state |-> "CLOSED"]>>,
      stateFile |-> Save(PublishedState, SubSeq(PublishedRevisions, 1, 1),
                         <<<<2, JjPushName(cPQR)>>>>, LocalBookmarks(bm))]

\* the program is started after such a closure, pqr being still away or
\* already back in the stack
InitReturn ==
  /\ \E kept \in BOOLEAN :
       /\ bookmarks = AfterClosure(kept).bookmarks
       /\ remote = AfterClosure(kept).remote
       /\ prs = AfterClosure(kept).prs
       /\ stateFile = AfterClosure(kept).stateFile
  /\ range \in {NormalLines({cKLM}), NormalLines({cKLM, cPQR})}
  /\ oplog = {}
  /\ pc = "idle"
  /\ args = NoArgs
  /\ revisions = <<>>
  /\ existing_branches = {}
  /\ closed_prs = <<>>
  /\ exitCode = -1
  /\ repoOk = TRUE
  /\ log = EmptyLog
  /\ callsOk = TRUE
  /\ dev = 0
  /\ failures = {}
  /\ runs = 0
  /\ edits = 0
  /\ last = NoLast
  /\ limits = [runs |-> ReturnRuns, edits |-> ReturnEdits, dev |-> ReturnDev, intr |-> FALSE]

\* a branch the user pushed for the change klm, with a bookmark and a request
\* of its own: feature-kkkkkkllmmmm
USER_BRANCH == Name("", <<"feature-">> \o cKLM)

\* the program is started after a plain run published klm, pqr, with the
\* user's branch next to the tool's; the stack may have changed since
InitUser ==
  /\ bookmarks = DictSet(PublishedBookmarks, USER_BRANCH, cKLM)
  /\ remote = {JjPushName(cKLM), JjPushName(cPQR), USER_BRANCH}
  /\ prs = <<[head |-> JjPushName(cKLM), base |-> DEFAULT_BASE_BRANCH, state |-> "OPEN"],
             [head |-> JjPushName(cPQR), base |-> JjPushName(cKLM), state |-> "OPEN"],
             [head |-> USER_BRANCH, base |-> DEFAULT_BASE_BRANCH, state |-> "OPEN"]>>
  /\ stateFile = PublishedState
  /\ range \in {NormalLines(C) : C \in SUBSET {cKLM, cPQR}}
  /\ oplog = {}
  /\ pc = "idle"
  /\ args = NoArgs
  /\ revisions = <<>>
  /\ existing_branches = {}
  /\ closed_prs = <<>>
  /\ exitCode = -1
  /\ repoOk = TRUE
  /\ log = EmptyLog
  /\ callsOk = TRUE
  /\ dev = 0
  /\ failures = {}
  /\ runs = 0
  /\ edits = 0
  /\ last = NoLast
  /\ limits = [runs |-> UserRuns, edits |-> UserEdits, dev |-> UserDev, intr |-> FALSE]

\* the program is started after a plain run published klm, pqr and the state
\* file was then lost or damaged; the stack may have changed since
InitFile ==
  /\ bookmarks = PublishedBookmarks
  /\ remote = {JjPushName(cKLM), JjPushName(cPQR)}
  /\ prs = <<[head |-> JjPushName(cKLM), base |-> DEFAULT_BASE_BRANCH, state |-> "OPEN"],
             [head |-> JjPushName(cPQR), base |-> JjPushName(cKLM), state |-> "OPEN"]>>
  /\ stateFile \in {[EmptyState EXCEPT !.kind = k] : k \in {"missing", "garbage", "array"}}
  /\ range \in {NormalLines(C) : C \in SUBSET {cKLM, cPQR}}
  /\ oplog = {}
  /\ pc = "idle"
  /\ args = NoArgs
  /\ revisions = <<>>
  /\ existing_branches = {}
  /\ closed_prs = <<>>
  /\ exitCode = -1
  /\ repoOk = TRUE
  /\ log = EmptyLog
  /\ callsOk = TRUE
  /\ dev = 0
  /\ failures = {}
  /\ runs = 0
  /\ edits = 0
  /\ last = NoLast
  /\ limits = [runs |-> FileRuns, edits |-> FileEdits, dev |-> FileDev, intr |-> FALSE]

\* the program is started after a plain run published klm, pqr and pqr then
\* left the stack, its bookmark kept or deleted
InitOrphan ==
  /\ bookmarks \in {PublishedBookmarks, DictDel(PublishedBookmarks, JjPushName(cPQR))}
  /\ remote = {JjPushName(cKLM), JjPushName(cPQR)}
  /\ prs = <<[head |-> JjPushName(cKLM), base |-> DEFAULT_BASE_BRANCH, state |-> "OPEN"],
             [head |-> JjPushName(cPQR), base |-> JjPushName(cKLM), state |-> "OPEN"]>>
  /\ stateFile = PublishedState
  /\ range = NormalLines({cKLM})
  /\ oplog = {}
  /\ pc = "idle"
  /\ args = NoArgs
  /\ revisions = <<>>
  /\ existing_branches = {}
  /\ closed_prs = <<>>
  /\ exitCode = -1
  /\ repoOk = TRUE
  /\ log = EmptyLog
  /\ callsOk = TRUE
  /\ dev = 0
  /\ failures = {}
  /\ runs = 0
  /\ edits = 0
  /\ last = NoLast
  /\ limits = [runs |-> OrphanRuns, edits |-> OrphanEdits, dev |-> OrphanDev, intr |-> FALSE]

Between == pc \in {"idle", "done"}

(* ----------------------- what the user does between runs --------------- *)
Edited ==
  /\ Between
  /\ edits < limits.edits
  /\ edits' = edits + 1
  /\ pc' = "idle"
  /\ args' = NoArgs
  /\ revisions' = <<>>
  /\ existing_branches' = {}
  /\ closed_prs' = <<>>
  /\ exitCode' = -1
  /\ repoOk' = TRUE
  /\ log' = EmptyLog
  /\ callsOk' = TRUE
  /\ failures' = {}
  /\ last' = NoLast
  /\ UNCHANGED <<remote, prs, stateFile, dev, runs, limits>>

InStack == {range[i].change_id : i \in DOMAIN range}

\* the lines of `jj log` for the changes C, newest first; a change already in
\* the stack keeps its content flag and its description
LineFor(c) ==
  IF InRange(c) THEN range[CHOOSE i \in DOMAIN range : range[i].change_id = c]
  ELSE Line(c, FALSE, "text")
StackLines(C) ==
  LET olderFirst == Filter(StackOrder, C)
  IN Reverse([i \in DOMAIN olderFirst |-> LineFor(olderFirst[i])])

\* jj new / jj restore: the change (back) in the stack
UserNew ==
  \E c \in ChangeIds \ InStack :
    /\ Edited
    /\ range' = StackLines(InStack \cup {c})
    /\ UNCHANGED <<bookmarks, oplog>>

\* the change leaves the stack and its bookmarks stay (the stack was rebased
\* away from it)
UserLeave ==
  \E c \in InStack :
    /\ Edited
    /\ range' = StackLines(InStack \ {c})
    /\ UNCHANGED <<bookmarks, oplog>>

\* jj abandon: the change is gone and so are the bookmarks that pointed at it;
\* the operation's description may name it
UserAbandon ==
  \E c \in InStack : \E words \in {{}, {c}} :
    /\ Edited
    /\ range' = StackLines(InStack \ {c})
    /\ bookmarks' = [b \in {x \in DOMAIN bookmarks : bookmarks[x] # c} |-> bookmarks[b]]
    /\ oplog' = oplog \cup words

\* jj squash: the change is folded into a neighbour of the stack (its parent,
\* or with --into its child), which inherits its bookmarks; the operation's
\* description may name either
UserSquash ==
  \E i \in DOMAIN range : \E j \in {i - 1, i + 1} \cap DOMAIN range :
    /\ LET c == range[i].change_id
           into == range[j].change_id
       IN \E words \in {{}, {c}, {c, into}} :
            /\ Edited
            /\ range' = StackLines(InStack \ {c})
            /\ bookmarks' = [b \in DOMAIN bookmarks |->
                               IF bookmarks[b] = c THEN into ELSE bookmarks[b]]
            /\ oplog' = oplog \cup words

\* jj bookmark delete / forget
UserDeleteBookmark ==
  \E b \in DOMAIN bookmarks :
    /\ Edited
    /\ bookmarks' = DictDel(bookmarks, b)
    /\ UNCHANGED <<range, oplog>>

\* jj describe: the first line of the description becomes empty, the word
\* EMPTY, or a text
UserDescribe ==
  \E i \in DOMAIN range : \E d \in {"", "EMPTY", "text"} \ {range[i].desc} :
    /\ Edited
    /\ range' = [range EXCEPT ![i].desc = d]
    /\ UNCHANGED <<bookmarks, oplog>>

\* the content of the change is taken out of it: jj reports it as empty
UserEmptied ==
  \E i \in DOMAIN range :
    /\ ~range[i].empty
    /\ Edited
    /\ range' = [range EXCEPT ![i].empty = TRUE]
    /\ UNCHANGED <<bookmarks, oplog>>

(* --------------------------------- main -------------------------------- *)
Exit(code) == pc' = "done" /\ exitCode' = code

\* main() up to the first branch: flags, get_revisions_above_base
RunStart ==
  \E a \in Args, repo \in BOOLEAN,
     F \in Faults({<<"call", "jjlog">>} \cup Interrupts({INTERRUPTED})) :
    /\ Between
    /\ runs < limits.runs
    /\ LET n == Cardinality(F) + (IF repo THEN 0 ELSE 1) + (IF a = NoArgs THEN 0 ELSE 1)
       IN dev + n <= limits.dev /\ dev' = dev + n
    /\ runs' = runs + 1
    /\ args' = a
    /\ repoOk' = repo
    /\ log' = EmptyLog
    /\ callsOk' = (F = {} /\ repo)
    /\ failures' = F \cup (IF repo THEN {} ELSE {<<"call", "repo">>})
    /\ existing_branches' = {}
    /\ closed_prs' = <<>>
    /\ last' = [valid |-> pc = "done", args |-> args,
                clean |-> pc = "done" /\ callsOk /\ exitCode = 0,
                state |-> stateFile, prs |-> prs,
                closed |-> {e[1] : e \in log.closed}]
    /\ LET revs == RevisionsAboveBase(range)
       IN IF F # {} THEN revisions' = <<>> /\ Exit(1)
          ELSE IF ~ValidateRevisions(revs) THEN revisions' = revs /\ Exit(1)
          ELSE /\ revisions' = revs
               /\ IF revs = <<>>
                  THEN IF ~a.no_pr /\ ~a.no_close_orphaned
                       THEN pc' = "orphans" /\ exitCode' = -1
                       ELSE Exit(0)
                  ELSE IF a.dry_run THEN Exit(0)
                  ELSE pc' = "push" /\ exitCode' = -1
    /\ UNCHANGED <<range, bookmarks, oplog, remote, prs, stateFile, edits, limits>>

\* the calls of AlmightyPush.push_revisions that can be made to fail
PushCalls ==
  {<<"call", "branches">>, <<"call", "push_new">>}
  \cup {<<"push_b", i>> : i \in DOMAIN revisions}
  \cup {<<"push_change", i>> : i \in DOMAIN revisions}
  \cup {<<"view_state", b>> : b \in DOMAIN Load(stateFile).closed}
  \cup {<<"reopen", b>> : b \in DOMAIN Load(stateFile).closed}

\* a main that closes orphans whatever --no-close-orphaned says
AfterPushClosing(a) == IF a.no_pr THEN "done" ELSE "close"

\* where main goes after pushing
AfterPush(a) == IF a.no_pr THEN "done"
                ELSE IF a.no_close_orphaned THEN "create" ELSE "close"

\* a _push_new_branches whose executor.run is called with check=False: the
\* failed command is returned, never raised
PushNewUnchecked(to_create, F) == FALSE

\* _push_new_branches: executor.run(cmd) with the default check=True raises
\* CalledProcessError when the batched push of the revisions without a branch
\* fails; TRUE when it raises
PushNewRaises(to_create, F) ==
  to_create # <<>> /\ <<"call", "push_new">> \in F

\* AlmightyPush.push_revisions: list the remote branches, categorize, reopen,
\* push (JujutsuClient.push_revisions)
PushRevisions ==
  /\ pc = "push"
  /\ \E F \in Faults(PushCalls \cup Interrupts({INTERRUPTED, INTERRUPTED_LOOKUP})),
        listing \in Perms(ManagedBranches(remote)) :
       LET listed == IF ~repoOk \/ F \cap {<<"call", "branches">>, INTERRUPTED_LOOKUP} # {}
                     THEN <<>> ELSE listing
           cat == Categorize(revisions, listed)
           to_create == Positions(cat, 1, FALSE)
           to_update == Positions(cat, 1, TRUE)
           \* _check_pr_reopening: the branch found for each revision
           re == ReopenAll([file |-> stateFile, prs |-> prs, log |-> log,
                            ok |-> callsOk /\ F = {}, res |-> FALSE],
                           AsSeq([k \in DOMAIN to_update |-> cat[to_update[k]].branch_name]), F)
           cids == AsSeq([k \in DOMAIN to_create |-> cat[to_create[k]].change_id])
           issued == [re.log EXCEPT !.pushed = @ \cup {<<"change", cids[k]>> : k \in DOMAIN cids},
                                    !.batch = cids]
       IN /\ dev' = dev + Cardinality(F)
          /\ failures' = failures \cup F
          /\ existing_branches' = Range(listed)
          /\ stateFile' = re.file
          /\ prs' = re.prs
          /\ IF Raises(stateFile) /\ to_update # <<>>
             THEN \* _check_pr_reopening: state.get raises in reopen_pr_if_needed
                  /\ revisions' = cat
                  /\ Exit(1)
                  /\ UNCHANGED <<bookmarks, remote, log, callsOk>>
             ELSE IF INTERRUPTED \in F
             THEN \* raised in jj git push, before it has pushed anything
                  /\ revisions' = cat
                  /\ log' = re.log
                  /\ callsOk' = FALSE
                  /\ Exit(1)
                  /\ UNCHANGED <<bookmarks, remote>>
             ELSE IF PushNewRaises(to_create, F)
             THEN \* executor.run(cmd) raises: main's except Exception returns 1
                  /\ revisions' = cat
                  /\ log' = issued
                  /\ callsOk' = FALSE
                  /\ Exit(1)
                  /\ UNCHANGED <<bookmarks, remote>>
             ELSE \E branches_found \in {<<>>} \cup Perms({JjPushName(cids[k]) : k \in DOMAIN cids}) :
                    LET named == AsSeq([i \in DOMAIN cat |->
                                    IF cat[i].branch_name = NoName
                                    THEN [cat[i] EXCEPT !.branch_name =
                                                          ParsePushOutput(branches_found, cat[i])]
                                    ELSE cat[i]])
                        up == UpdateExistingBranches(
                                [bm |-> NewBookmarks(bookmarks, cids),
                                 remote |-> remote \cup {JjPushName(cids[k]) : k \in DOMAIN cids},
                                 log |-> issued, ok |-> re.ok], named, to_update, F)
                    IN /\ revisions' = named
                       /\ bookmarks' = up.bm
                       /\ remote' = up.remote
                       /\ log' = [up.log EXCEPT !.found = branches_found]
                       /\ callsOk' = up.ok
                       /\ pc' = AfterPush(args)
                       /\ exitCode' = IF args.no_pr THEN 0 ELSE -1
  /\ UNCHANGED <<range, oplog, args, closed_prs, repoOk, runs, edits, limits, last>>

\* main: closed_prs = almighty.close_orphaned_prs(revisions, existing_branches, ...)
CloseOrphans ==
  /\ pc = "close"
  /\ \E F \in Faults(CloseCalls(TRUE, args.delete_branches) \cup Interrupts({INTERRUPTED})),
        shown \in BoundedRenderings(bookmarks, remote) :
       LET r == CloseOrphanedPrs([prs |-> prs, remote |-> remote, log |-> log,
                                  ok |-> callsOk /\ F = {}, closed |-> <<>>, shown |-> shown],
                                 revisions, TRUE, existing_branches, args.delete_branches, F)
       IN /\ dev' = dev + Cardinality(F)
          /\ failures' = failures \cup F
          /\ IF (repoOk /\ Raises(stateFile)) \/ INTERRUPTED \in F
             THEN \* get_disappeared_bookmarks: state.get raises; or the
                  \* interrupt is raised in the first call
                  /\ Exit(1)
                  /\ callsOk' = (callsOk /\ F \cap {<<"call", "bookmarks">>, INTERRUPTED} = {})
                  /\ UNCHANGED <<prs, remote, log, closed_prs>>
             ELSE /\ prs' = r.prs
                  /\ remote' = r.remote
                  /\ log' = r.log
                  /\ callsOk' = r.ok
                  /\ closed_prs' = r.closed
                  /\ pc' = "create"
                  /\ UNCHANGED exitCode
  /\ UNCHANGED <<range, bookmarks, oplog, stateFile, args, revisions, existing_branches,
                 repoOk, runs, edits, limits, last>>

\* main, empty stack: close_orphaned_prs([], None, ...), get_local_bookmarks,
\* state_manager.save([], closed_prs, local_bookmarks), return 0
OrphansOnly ==
  /\ pc = "orphans"
  /\ \E F \in Faults(CloseCalls(FALSE, args.delete_branches)
                     \cup {<<"call", "bookmarks_save">>, <<"call", "write">>}
                     \cup Interrupts({INTERRUPTED})),
        shown \in BoundedRenderings(bookmarks, remote) :
       LET r == CloseOrphanedPrs([prs |-> prs, remote |-> remote, log |-> log,
                                  ok |-> callsOk /\ F = {}, closed |-> <<>>, shown |-> shown],
                                 <<>>, FALSE, {}, args.delete_branches, F)
           local_bookmarks == IF <<"call", "bookmarks_save">> \in F THEN {}
                              ELSE LocalBookmarks(bookmarks)
       IN /\ dev' = dev + Cardinality(F)
          /\ failures' = failures \cup F
          /\ IF Raises(stateFile) \/ INTERRUPTED \in F
             THEN \* get_disappeared_bookmarks, or else save: state.get or
                  \* state['last_run'] = ... raises; or the interrupt is
                  \* raised in the first call
                  /\ Exit(1)
                  /\ callsOk' = (callsOk /\ F \cap {<<"call", "branches">>, <<"call", "bookmarks">>,
                                                   <<"call", "bookmarks_save">>, INTERRUPTED} = {})
                  /\ UNCHANGED <<prs, remote, log, closed_prs, stateFile>>
             ELSE /\ prs' = r.prs
                  /\ remote' = r.remote
                  /\ log' = [r.log EXCEPT !.wrote = TRUE]
                  /\ callsOk' = r.ok
                  /\ closed_prs' = r.closed
                  /\ stateFile' = IF <<"call", "write">> \in F THEN stateFile
                                  ELSE Save(stateFile, <<>>, r.closed, local_bookmarks)
                  /\ Exit(0)
  /\ UNCHANGED <<range, bookmarks, oplog, args, revisions, existing_branches,
                 repoOk, runs, edits, limits, last>>

\* the calls of create_pull_requests that can be made to fail
CreateCalls ==
  {<<"view", i>> : i \in DOMAIN revisions}
  \cup {<<"create", i>> : i \in DOMAIN revisions}
  \cup {<<"edit", i>> : i \in DOMAIN revisions}
  \cup {<<"view_state", b>> : b \in DOMAIN Load(stateFile).closed}
  \cup {<<"reopen", b>> : b \in DOMAIN Load(stateFile).closed}

\* AlmightyPush.create_pull_requests (verify_pr_bases, which follows, only reads)
CreatePullRequests ==
  /\ pc = "create"
  /\ IF ~repoOk
     THEN /\ UNCHANGED <<stateFile, prs, revisions, log, callsOk, dev, failures, exitCode>>
          /\ pc' = "update"
     ELSE IF Raises(stateFile) /\ Positions(revisions, 1, TRUE) # <<>>
     THEN \* reopen_pr_if_needed: state.get raises
          /\ UNCHANGED <<stateFile, prs, revisions, log, callsOk, dev, failures>>
          /\ Exit(1)
     ELSE \E F \in Faults(CreateCalls \cup Interrupts({INTERRUPTED})) :
            LET named == Positions(revisions, 1, TRUE)
                re == ReopenAll([file |-> stateFile, prs |-> prs, log |-> log,
                                 ok |-> callsOk /\ F = {}, res |-> FALSE],
                                AsSeq([k \in DOMAIN named |-> revisions[named[k]].branch_name]), F)
                cr == CreateFrom([prs |-> re.prs, revs |-> revisions, log |-> re.log,
                                  ok |-> re.ok], 1, F)
            IN /\ dev' = dev + Cardinality(F)
               /\ failures' = failures \cup F
               /\ IF INTERRUPTED \in F
                  THEN \* raised in the first call
                       /\ callsOk' = FALSE
                       /\ Exit(1)
                       /\ UNCHANGED <<stateFile, prs, revisions, log>>
                  ELSE /\ stateFile' = re.file
                       /\ prs' = cr.prs
                       /\ revisions' = cr.revs
                       /\ log' = cr.log
                       /\ callsOk' = cr.ok
                       /\ pc' = "update"
                       /\ UNCHANGED exitCode
  /\ UNCHANGED <<range, bookmarks, oplog, remote, args, existing_branches, closed_prs,
                 repoOk, runs, edits, limits, last>>

\* GitHubClient.update_pr_details: the requests whose title and body are edited
Refreshed(revs) ==
  {revs[i].branch_name : i \in {j \in DOMAIN revs : revs[j].pr_url # <<>>}} \ {NoName}

UpdatePrDetails ==
  /\ pc = "update"
  /\ log' = [log EXCEPT !.refreshed = Refreshed(revisions)]
  /\ pc' = "save"
  /\ UNCHANGED <<range, bookmarks, oplog, remote, prs, stateFile, args, revisions,
                 existing_branches, closed_prs, exitCode, repoOk, callsOk, dev,
                 failures, runs, edits, limits, last>>

\* main: get_local_bookmarks, state_manager.save(revisions, closed_prs,
\* local_bookmarks), return 0
SaveState ==
  /\ pc = "save"
  /\ \E F \in Faults({<<"call", "bookmarks_save">>, <<"call", "write">>}
                     \cup Interrupts({INTERRUPTED})) :
       LET local_bookmarks == IF <<"call", "bookmarks_save">> \in F THEN {}
                              ELSE LocalBookmarks(bookmarks)
       IN /\ dev' = dev + Cardinality(F)
          /\ failures' = failures \cup F
          /\ IF Raises(stateFile) \/ INTERRUPTED \in F
             THEN \* save: state['last_run'] = ... raises; or the interrupt is
                  \* raised in get_local_bookmarks
                  /\ callsOk' = (callsOk /\ F \cap {<<"call", "bookmarks_save">>, INTERRUPTED} = {})
                  /\ UNCHANGED <<stateFile, log>>
                  /\ Exit(1)
             ELSE /\ callsOk' = (callsOk /\ F = {})
                  /\ stateFile' = IF <<"call", "write">> \in F THEN stateFile
                                  ELSE Save(stateFile, revisions, closed_prs, local_bookmarks)
                  /\ log' = [log EXCEPT !.wrote = TRUE]
                  /\ Exit(0)
  /\ UNCHANGED <<range, bookmarks, oplog, remote, prs, args, revisions,
                 existing_branches, closed_prs, repoOk, runs, edits, limits, last>>

Next ==
  \/ UserNew
  \/ UserLeave
  \/ UserAbandon
  \/ UserSquash
  \/ UserDeleteBookmark
  \/ UserDescribe
  \/ UserEmptied
  \/ RunStart
  \/ PushRevisions
  \/ CloseOrphans
  \/ OrphansOnly
  \/ CreatePullRequests
  \/ UpdatePrDetails
  \/ SaveState

Spec == Init /\ [][Next]_vars
SpecHistory == InitHistory /\ [][Next]_vars
SpecReturn == InitReturn /\ [][Next]_vars
SpecUser == InitUser /\ [][Next]_vars
SpecFile == InitFile /\ [][Next]_vars
SpecInterrupt == InitInterrupt /\ [][Next]_vars
SpecOrphan == InitOrphan /\ [][Next]_vars

(* ------------------------------ properties ----------------------------- *)
Done == pc = "done"
Running == pc # "idle"
\* the changes of the queried range that have content
WithContent == {i \in DOMAIN range : ~range[i].empty}

\* a finished run that had reviews enabled and in which no command failed
ReviewsEnabled == ~args.no_pr /\ ~args.dry_run
CleanRun == Done /\ exitCode = 0 /\ repoOk /\ callsOk
CleanupEnabled == ReviewsEnabled /\ ~args.no_close_orphaned
\* the request the run recorded for the revision at position i (0: none)
RequestOf(i) == ExtractPrNumber(revisions[i].pr_url)
ActiveBranches == {revisions[i].branch_name : i \in DOMAIN revisions} \ {NoName}
ActiveChangeIds == {revisions[i].change_id : i \in DOMAIN revisions}
OpenAtStart(n) == n \in DOMAIN last.prs /\ last.prs[n].state = "OPEN"
ClosedAtStart(n) == n \in DOMAIN last.prs /\ last.prs[n].state = "CLOSED"

\* C1: after a run with reviews enabled in which every host call succeeds, the
\* request of the oldest revision has the global base branch as base and the
\* request of every other revision has as base the branch of the revision
\* below it, for requests created in the run and for older ones alike.
C1_OrderPreserved ==
  (CleanRun /\ ReviewsEnabled) =>
    \A i \in DOMAIN revisions :
      /\ RequestOf(i) \in DOMAIN prs
      /\ prs[RequestOf(i)].head = revisions[i].branch_name
      /\ prs[RequestOf(i)].base = BaseFor(revisions, i)

\* a clean run that has re-based an older request and created a new one
C1_RebasedAndCreated ==
  /\ CleanRun /\ ReviewsEnabled
  /\ \E i, j \in DOMAIN revisions :
       /\ OpenAtStart(RequestOf(i))
       /\ last.prs[RequestOf(i)].base # prs[RequestOf(i)].base
       /\ RequestOf(j) \in DOMAIN prs \ DOMAIN last.prs

\* C2: outside the same-commit duplicate rule, a run never closes a request
\* whose head branch is the branch assigned to a revision of the current
\* stack, whatever the previous bookmarks, the operation history and the
\* previous Tracked State contain.
C2_NoActiveRequestClosed ==
  \A e \in log.closed :
    e[2] # R_SAMECOMMIT => prs[e[1]].head \notin ActiveBranches

\* a run over a stack that has closed a request of a change no longer in it
C2_ClosedAnOrphan ==
  /\ Done /\ revisions # <<>>
  /\ \E e \in log.closed : e[2] # R_SAMECOMMIT /\ prs[e[1]].head \notin ActiveBranches

\* what Tracked State holds, timestamps aside
Tracked(file) == [prs |-> Load(file).prs, closed |-> Load(file).closed,
                  bookmarks |-> Load(file).bookmarks]
\* the changes Tracked State mapped to a request that was open when the run
\* started, and that are not in the stack of the run
TrackedRequest(X) == Load(last.state).prs[X].pr_number
TrackedOrphans ==
  {X \in DOMAIN Load(last.state).prs :
     OpenAtStart(TrackedRequest(X)) /\ X \notin ActiveChangeIds}
ClosedFor(n, reasons) == \E e \in log.closed : e[1] = n /\ e[2] \in reasons
RemovalReasons == {R_DELETED, R_OPLOG, R_NOTINSTACK, R_REMOVED, R_SAMECOMMIT}

\* C3: in a run with orphan cleanup enabled in which listing and closing
\* succeed, a request that was open and that Tracked State mapped to a change
\* no longer in the stack is closed with a reason that mentions the removal
\* (every reason the code gives for a closure counts as one: deleted
\* bookmark, operation log, no longer in the stack, removed from the stack,
\* squashed into the same commit).
C3_OrphanClosedAsRemoved ==
  (CleanRun /\ CleanupEnabled) =>
    \A X \in TrackedOrphans : ClosedFor(TrackedRequest(X), RemovalReasons)

\* a tracked change left the stack with its bookmark in place, and the run
\* closed its request
C3_ClosedAfterLeaving ==
  /\ CleanRun /\ CleanupEnabled
  /\ \E X \in TrackedOrphans :
       /\ last.prs[TrackedRequest(X)].head = JjPushName(X)
       /\ JjPushName(X) \in DOMAIN bookmarks
       /\ ClosedFor(TrackedRequest(X), {R_NOTINSTACK})

\* the managed bookmarks on the commit of change t, and the requests open at
\* the start of the run whose head is one of them
BookmarksAt(t) == {b \in DOMAIN bookmarks : IsManagedBookmark(b) /\ bookmarks[b] = t}
RequestsAt(t) == {n \in DOMAIN last.prs : OpenAtStart(n) /\ last.prs[n].head \in BookmarksAt(t)}
Crowded(t) == /\ Cardinality(BookmarksAt(t)) > 1
              /\ \A b \in BookmarksAt(t) : \E n \in RequestsAt(t) : last.prs[n].head = b
Min(S) == CHOOSE x \in S : \A y \in S : x <= y

\* C4: when two or more managed bookmarks point at the same commit and each
\* has an open request, then after a run with orphan cleanup enabled, all
\* closes succeeding, the lowest-numbered of those requests is still open and
\* every other one has been closed with the same-commit reason (stated for the
\* commits of the revisions of the stack, where no other rule asks for a
\* closure).
C4_LowestKeptOthersClosed ==
  (CleanRun /\ CleanupEnabled) =>
    \A t \in ActiveChangeIds :
      Crowded(t) =>
        /\ prs[Min(RequestsAt(t))].state = "OPEN"
        /\ \A n \in RequestsAt(t) \ {Min(RequestsAt(t))} : ClosedFor(n, {R_SAMECOMMIT})

\* the case of C4 in which the code does as claimed
C4_SquashCollapsed ==
  /\ CleanRun /\ CleanupEnabled
  /\ \E t \in ActiveChangeIds :
       /\ Crowded(t)
       /\ prs[Min(RequestsAt(t))].state = "OPEN"
       /\ \A n \in RequestsAt(t) \ {Min(RequestsAt(t))} : ClosedFor(n, {R_SAMECOMMIT})

\* C5: when the tool is run twice in succession with the same flags and
\* nothing changes in between, the second run creates no request, edits no
\* base, and leaves Tracked State equal to what the first run left.
C5_SecondRunChangesNothing ==
  (CleanRun /\ last.valid /\ last.clean /\ last.args = args) =>
    /\ log.created = {}
    /\ log.edited = {}
    /\ Tracked(stateFile) = Tracked(last.state)

\* a second run right after a run that created requests
C5_SecondRunAfterCreate ==
  /\ CleanRun /\ last.valid /\ last.clean /\ last.args = args
  /\ ReviewsEnabled /\ Len(revisions) > 1 /\ log.created = {}

\* the branches closed_prs_map held at the start of the run, for a request
\* still closed then, that the run assigned to a revision
ClosedRequest(B) == Load(last.state).closed[B].pr_number
Returned ==
  {B \in DOMAIN Load(last.state).closed \cap ActiveBranches : ClosedAtStart(ClosedRequest(B))}
Reopened(B) ==
  /\ ClosedRequest(B) \in log.reopened
  /\ <<ClosedRequest(B), "reopened">> \in log.commented
  /\ B \in log.unmapped
  /\ \A e \in log.created : e[1] # B

C7_NoDuplicateRequest ==
  /\ \A e \in log.created : e[3] = 0
  /\ \A n, m \in DOMAIN prs :
       (prs[n].state = "OPEN" /\ prs[m].state = "OPEN" /\ prs[n].head = prs[m].head)
         => n = m

\* C8: if a revision with content changes in the queried range, at any
\* position, has an empty description, the run exits with code 1 and issues no
\* push, no create/edit/close/reopen of a review request and no state write.
C8_MissingDescriptionStops ==
  (Running /\ \E i \in WithContent : range[i].desc = "")
    => (log = EmptyLog /\ (Done => exitCode = 1))

\* the case of C8 that the code handles: the oldest revision has no description
C8_OldestWithoutDescription ==
  /\ Done /\ exitCode = 1 /\ log = EmptyLog /\ Len(range) > 1
  /\ Len(range) \in WithContent /\ range[Len(range)].desc = ""

\* C9: in every run with the dry-run flag, for every stack including the
\* empty one, no push, no create/edit/close/reopen/comment of a review request,
\* no branch deletion and no write of the state file happens.
C9_DryRunMutatesNothing ==
  (Running /\ args.dry_run) => (log = EmptyLog /\ stateFile = last.state /\ prs = last.prs)

\* a dry run over a stack that is not empty
C9_DryRunOverStack ==
  Done /\ args.dry_run /\ revisions # <<>> /\ exitCode = 0

\* C10: in every run without the delete-branches flag no remote branch
\* deletion is issued, however many review requests are closed.
C10_NoDeletionWithoutFlag ==
  (Running /\ ~args.delete_branches) => log.deleted = {}

\* a run without the flag that has closed a request
C10_ClosedWithoutFlag ==
  Done /\ ~args.delete_branches /\ log.closed # {}

\* what a run has done to review requests
RequestLog == [created |-> log.created, edited |-> log.edited, closed |-> log.closed,
               reopened |-> log.reopened, commented |-> log.commented,
               refreshed |-> log.refreshed]
NoRequestLog == [created |-> {}, edited |-> {}, closed |-> {}, reopened |-> {},
                 commented |-> {}, refreshed |-> {}]

\* C11: in every run with the no-review flag, no review request is created,
\* edited, closed, reopened or commented on.
C11_NoReviewOnlyPushes ==
  (Running /\ args.no_pr) => (RequestLog = NoRequestLog /\ prs = last.prs)

\* a run with the no-review flag that has pushed branches
C11_PushedWithoutReview ==
  Done /\ exitCode = 0 /\ args.no_pr /\ ~args.dry_run /\ log.pushed # {}

\* C12: every non-dry-run run that ends with exit code 0 on an empty stack
\* writes Tracked State (no prs, the closed-requests map, the current managed
\* local bookmarks), whatever the other flags are.
C12_EmptyStackPersists ==
  (Done /\ exitCode = 0 /\ revisions = <<>> /\ ~args.dry_run) =>
    /\ log.wrote
    /\ callsOk => /\ Load(stateFile).prs = EmptyDict
                  /\ Load(stateFile).bookmarks = LocalBookmarks(bookmarks)

\* the last tracked revision has left the stack and the run has written a
\* Tracked State without it
C12_LastRevisionGone ==
  /\ Done /\ exitCode = 0 /\ revisions = <<>> /\ ~args.dry_run
  /\ log.wrote /\ Load(last.state).prs # EmptyDict /\ Load(stateFile).prs = EmptyDict

\* the first eight characters of a change id
Prefix8(cid) == Take(cid, 8)

\* C13: after Steps A-B of any run, no two distinct revisions of the stack
\* carry the same branch name, including when two change ids share their first
\* 8 characters.
C13_OneBranchPerRevision ==
  \A i, j \in DOMAIN revisions :
    (i # j /\ revisions[i].branch_name # NoName)
      => revisions[i].branch_name # revisions[j].branch_name

\* two revisions whose change ids share their first 8 characters have been
\* given a branch each
C13_SharedPrefixApart ==
  /\ pc \notin {"idle", "push"}
  /\ \E i, j \in DOMAIN revisions :
       /\ i # j
       /\ Prefix8(revisions[i].change_id) = Prefix8(revisions[j].change_id)
       /\ revisions[i].branch_name # NoName
       /\ revisions[j].branch_name # NoName
       /\ revisions[i].branch_name # revisions[j].branch_name

\* a name that starts with one of the two managed prefixes
OwnPrefix(name) == name.pfx \in {PUSH_BRANCH_PREFIX, CHANGES_BRANCH_PREFIX}

\* C14: every push by branch name, branch deletion, and review-request close,
\* comment, reopen, create and edit that the tool issues targets a branch (or a
\* request whose head branch) that starts with one of the two managed
\* prefixes; the requests of other branches stay as they were.
C14_UserBranchesUntouched ==
  /\ \A e \in log.pushed : e[1] = "branch" => OwnPrefix(e[2])
  /\ \A b \in log.deleted \cup log.refreshed : OwnPrefix(b)
  /\ \A e \in log.closed \cup log.commented : OwnPrefix(prs[e[1]].head)
  /\ \A n \in log.reopened : OwnPrefix(prs[n].head)
  /\ \A e \in log.created \cup log.edited : OwnPrefix(e[1])
  /\ Running => \A n \in DOMAIN last.prs : ~OwnPrefix(last.prs[n].head) => prs[n] = last.prs[n]

\* a run that pushed by branch name and closed a request while the user had a
\* bookmark and an open request of their own for a change of the tool's
C14_WorkedNextToUserBranch ==
  /\ Done /\ exitCode = 0 /\ log.closed # {}
  /\ \E e \in log.pushed : e[1] = "branch"
  /\ \E b \in DOMAIN bookmarks : ~OwnPrefix(b) /\ OwnPrefix(JjPushName(bookmarks[b]))
  /\ \E n \in DOMAIN prs : ~OwnPrefix(prs[n].head) /\ prs[n].state = "OPEN"

\* the local bookmarks that point at the change cid
PointingAt(cid) == {b \in DOMAIN bookmarks : bookmarks[b] = cid}

\* C15: a revision flagged as having no content changes is never part of the
\* stack and never receives a branch, a push or a review request, whatever its
\* description is; an empty description on it causes no failure (a run in
\* which no command fails ends with code 1 only for a revision with content).
C15_EmptyContentSkipped ==
  Running =>
    /\ \A i \in DOMAIN range \ WithContent :
         /\ range[i].change_id \notin ActiveChangeIds
         /\ <<"change", range[i].change_id>> \notin log.pushed
         /\ \A e \in log.pushed : e[1] = "branch" => e[2] \notin PointingAt(range[i].change_id)
         /\ \A e \in log.created : e[1] \notin PointingAt(range[i].change_id)
    /\ (Done /\ exitCode = 1 /\ callsOk) => \E i \in WithContent : range[i].desc = ""

\* a run that has published the stack around a revision without content and
\* without description
C15_SkippedInTheMiddle ==
  /\ Done /\ exitCode = 0 /\ ReviewsEnabled /\ revisions # <<>>
  /\ \E i \in DOMAIN range \ WithContent :
       /\ range[i].desc = ""
       /\ range[i].change_id \notin ActiveChangeIds
       /\ \E j \in WithContent : j < i
  /\ log.pushed # {}

\* C16: for every content of the state file that is not a document of the
\* expected shape (absent, unparsable, or parsable but of another shape), the
\* run behaves as with an empty document: it reopens nothing and closes
\* nothing on the strength of previous bookmarks or requests, a run in which
\* no command fails and no description is missing ends with code 0, and a
\* state written by the run is a proper document.
C16_DamagedFileReadsAsEmpty ==
  (Running /\ last.state.kind # "doc") =>
    /\ log.reopened = {}
    /\ \A e \in log.closed : e[2] \notin {R_DELETED, R_NOTINSTACK}
    /\ (Done /\ callsOk /\ ValidateRevisions(revisions)) =>
         /\ exitCode = 0
         /\ (ReviewsEnabled /\ revisions # <<>>) => (log.wrote /\ stateFile.kind = "doc")

\* a run over a stack that found an unparsable state file and has written a
\* proper one
C16_GarbageReplaced ==
  /\ Done /\ exitCode = 0 /\ revisions # <<>>
  /\ last.state.kind = "garbage" /\ log.wrote /\ stateFile.kind = "doc"

\* the auxiliary reads: the remote branch listing, the open-request listing,
\* the bookmark listings, the operation log, the repository coordinates
AuxReads == {<<"call", c>> : c \in {"branches", "prlist", "bookmarks", "bookmarks_save",
                                    "samecommit", "oplog", "repo"}}
OnlyAuxReadsFailed == failures # {} /\ failures \subseteq AuxReads

\* C17: if listing remote branches, listing open review requests, listing
\* bookmarks or operations, or resolving the repository coordinates fails, the
\* run closes nothing on the strength of the missing data (a request closed
\* for a deleted or missing bookmark has no local bookmark) and, unless a
\* description is missing, ends with exit code 0.
C17_AuxiliaryReadsDegrade ==
  (Running /\ OnlyAuxReadsFailed) =>
    /\ \A e \in log.closed :
         e[2] \in {R_DELETED, R_REMOVED} => prs[e[1]].head \notin DOMAIN bookmarks
    /\ (Done /\ ValidateRevisions(revisions)) => exitCode = 0

\* a run that could not list the open requests and went on to the end
C17_WentOnWithoutListing ==
  /\ Done /\ exitCode = 0 /\ failures = {<<"call", "prlist">>}
  /\ log.closed = {} /\ log.created # {} /\ log.wrote

\* a run in which closes, creates or edits of single requests have failed,
\* and nothing else
OnlyMutationsFailed ==
  failures # {} /\ \A f \in failures : f[1] \in {"close", "create", "edit"}
\* the requests open at the start of the run that the loop of
\* close_orphaned_prs has to close: the change named by the managed head
\* branch is tracked and not in the stack (the loop passes over a request
\* whose head has a second open request marked as same-commit duplicate)
ToClose ==
  {n \in DOMAIN last.prs :
     /\ OpenAtStart(n) /\ OwnPrefix(last.prs[n].head)
     /\ last.prs[n].head.body \in DOMAIN Load(last.state).prs \ ActiveChangeIds
     /\ \A m \in DOMAIN last.prs \ {n} :
          OpenAtStart(m) => last.prs[m].head # last.prs[n].head}
\* the branches whose entry of closed_prs_map the run has written
NewlyMapped ==
  {B \in DOMAIN Load(stateFile).closed :
     B \in DOMAIN Load(last.state).closed => Load(stateFile).closed[B] # Load(last.state).closed[B]}
AloneOnRequest(i) == \A j \in DOMAIN revisions \ {i} : RequestOf(j) # RequestOf(i)

\* C18: when the close, create or edit of one review request fails, the run
\* still attempts the operation on every remaining item (every request to
\* close gets its close, every revision without a request its create, every
\* request with another base its edit), ends with exit code 0, and records in
\* closed_prs_map only the requests whose close succeeded.
C18_BatchGoesOn ==
  (Running /\ OnlyMutationsFailed /\ repoOk) =>
    /\ (CleanupEnabled /\ pc \in {"create", "update", "save", "done"}) =>
         \A n \in ToClose : \E e \in log.closed : e[1] = n
    /\ (ReviewsEnabled /\ pc \in {"update", "save", "done"}) =>
         \A i \in DOMAIN revisions :
           /\ RequestOf(i) = 0 => \E e \in log.created : e[1] = revisions[i].branch_name
           /\ (RequestOf(i) # 0 /\ AloneOnRequest(i)) =>
                \/ prs[RequestOf(i)].base = BaseFor(revisions, i)
                \/ <<revisions[i].branch_name, BaseFor(revisions, i)>> \in log.edited
    /\ Done => exitCode = 0
    /\ \A B \in NewlyMapped :
         /\ <<"close", Load(stateFile).closed[B].pr_number>> \notin failures
         /\ \E e \in log.closed : e[1] = Load(stateFile).closed[B].pr_number

\* two requests were to be closed, the close of the first failed, the second
\* was closed and is the only one recorded
C18_SecondClosedAfterFailure ==
  /\ Done /\ exitCode = 0 /\ OnlyMutationsFailed
  /\ \E n, m \in ToClose :
       /\ <<"close", n>> \in failures /\ prs[n].state = "OPEN"
       /\ m # n /\ prs[m].state = "CLOSED"
       /\ NewlyMapped = {prs[m].head}

\* the user has interrupted the run
Interrupted == failures \cap {INTERRUPTED, INTERRUPTED_LOOKUP} # {}

\* C19: an interrupt at any point of a run makes the run exit with code 1;
\* the run is over with the interrupt, so that no external mutation and no
\* write of the state file follows it.
C19_InterruptEndsRun ==
  (Running /\ Interrupted) => (Done /\ exitCode = 1)

\* a run interrupted after it has pushed, before it has created a request
C19_StoppedAfterPush ==
  /\ Done /\ exitCode = 1 /\ failures = {INTERRUPTED}
  /\ log.pushed # {} /\ RequestLog = NoRequestLog /\ ~log.wrote

\* C20: in every run with the no-orphan-cleanup flag, for every stack
\* including the empty one, no review request is closed and no remote branch
\* is deleted: no close or deletion is issued, and the requests open at the
\* start of the run stay open.
C20_NoCleanupWithFlag ==
  (Running /\ args.no_close_orphaned) =>
    /\ log.closed = {}
    /\ log.deleted = {}
    /\ \A n \in DOMAIN last.prs : OpenAtStart(n) => prs[n].state = "OPEN"

\* a run with the flag that has published the stack and left the request of
\* a departed change open
C20_OrphanLeftOpen ==
  /\ Done /\ exitCode = 0 /\ args.no_close_orphaned /\ ReviewsEnabled
  /\ revisions # <<>> /\ log.wrote
  /\ \E n \in ToClose : prs[n].state = "OPEN"

\* the listed branches that embed the 12-character prefix of the change id,
\* and those that embed its 8-character prefix only
Embedding12(cid) == {b \in existing_branches : InName(Take(cid, 12), b)}
Embedding8Only(cid) == {b \in existing_branches : InName(Take(cid, 8), b)} \ Embedding12(cid)

\* C21: if some listed branch embeds the 12-character prefix of a revision's
\* change id and another embeds only its 8-character prefix, the revision is
\* assigned the branch embedding the 12-character prefix, whatever the order
\* of the listing.
C21_LongerPrefixPreferred ==
  pc \notin {"idle", "push"} =>
    \A i \in DOMAIN revisions :
      (Embedding12(revisions[i].change_id) # {} /\ Embedding8Only(revisions[i].change_id) # {})
        => revisions[i].branch_name \in Embedding12(revisions[i].change_id)

\* the listing named both kinds of branch and the revision got the one that
\* embeds its 12-character prefix
C21_ListedInSuitableOrder ==
  /\ pc \notin {"idle", "push"}
  /\ \E i \in DOMAIN revisions :
       /\ Embedding12(revisions[i].change_id) # {}
       /\ Embedding8Only(revisions[i].change_id) # {}
       /\ revisions[i].branch_name \in Embedding12(revisions[i].change_id)

\* Step B of the run has completed without error
StepBDone == pc \in {"close", "create", "update", "save"} \/ (Done /\ exitCode = 0 /\ ~args.dry_run)
\* the revision at position i had no branch in the listing ('create')
IsCreate(i) == \A b \in existing_branches, n \in {8, 12} : ~InName(Take(revisions[i].change_id, n), b)
\* some branch name of the push output contains a prefix of the change id
InPushOutput(cid) == \E k \in DOMAIN log.found, n \in {6, 8, 12} : InName(Take(cid, n), log.found[k])

\* C22: after Step B completes without error every revision of the stack has a
\* branch name, and a 'create' revision for which no branch name of the push
\* output contains its change id prefix of length 6, 8 or 12 is named push-
\* followed by the first 12 characters of its change id; so every revision
\* after the first has a base in Step D.
C22_FallbackAlwaysReached ==
  StepBDone =>
    \A i \in DOMAIN revisions :
      /\ revisions[i].branch_name # NoName
      /\ (IsCreate(i) /\ ~InPushOutput(revisions[i].change_id))
           => revisions[i].branch_name = Name(PUSH_BRANCH_PREFIX, Take(revisions[i].change_id, 12))
      /\ (pc = "create" /\ i > 1) => BaseFor(revisions, i) # NoName

\* Step D is reached with a second revision whose name was assumed, the push
\* output having named no branch
C22_NameAssumed ==
  /\ pc = "create"
  /\ log.found = <<>>
  /\ \E i \in DOMAIN revisions :
       /\ i > 1
       /\ IsCreate(i)
       /\ revisions[i].branch_name = Name(PUSH_BRANCH_PREFIX, Take(revisions[i].change_id, 12))

\* the four conditions of the orphan decision for head branch b, on the state
\* the close phase starts from
Cond1(b) == b \in Load(stateFile).bookmarks /\ b \notin DOMAIN bookmarks
Cond2(b) == b.body \in ExtractChangeIds(oplog)
Cond3(b) == b.body \in DOMAIN Load(stateFile).prs /\ b.body \notin ActiveChangeIds
Cond4(b) == b \notin DOMAIN bookmarks /\ b \notin ActiveBranches /\ b.body \notin ActiveChangeIds
FirstReason(b) ==
  IF Cond1(b) THEN R_DELETED ELSE IF Cond2(b) THEN R_OPLOG
  ELSE IF Cond3(b) THEN R_NOTINSTACK ELSE IF Cond4(b) THEN R_REMOVED ELSE R_NONE
\* a step of the close phase in which every read of close_orphaned_prs succeeded
DecisionStep ==
  /\ pc \in {"close", "orphans"} /\ pc' # pc
  /\ repoOk /\ ~Raises(stateFile)
  /\ (failures' \ failures) \cap ({<<"call", c>> : c \in {"branches", "bookmarks", "oplog", "samecommit", "prlist"}} \cup {INTERRUPTED}) = {}
\* the open managed requests that the same-commit rule marks in this step
UnmarkedOpen == {n \in DOMAIN prs : prs[n].state = "OPEN" /\ IsManagedBookmark(prs[n].head) /\ <<n, R_SAMECOMMIT>> \notin log'.closed}

C24_TrackedEntriesKept ==
  Done =>
    \A X \in DOMAIN Load(last.state).prs :
      \/ X \in DOMAIN Load(stateFile).prs
      \/ ClosedFor(TrackedRequest(X), RemovalReasons)

\* a run with orphan cleanup disabled saved the state, an entry tracked before
\* the run being among the entries written
C24_SavedWithoutCleanup ==
  /\ Done /\ exitCode = 0 /\ log.wrote /\ args.no_close_orphaned
  /\ stateFile # last.state
  /\ DOMAIN Load(last.state).prs \cap DOMAIN Load(stateFile).prs # {}

\* closed_prs_map before the run and now
ClosedMapAtStart == Load(last.state).closed
ClosedMapNow == Load(stateFile).closed
\* the run closed request n, whose head branch is b
ClosedInRun(n, b) == n \in DOMAIN prs /\ prs[n].head = b /\ \E e \in log.closed : e[1] = n
\* the run reopened request n, which was closed when the run started
ReopenedInRun(n) == ClosedAtStart(n) /\ <<n, "reopened">> \in log.commented

\* C25: a run leaves every entry of closed_prs_map as it was, except that it
\* adds or overwrites the entry of a branch whose request it closed and
\* removes the entry of a branch whose request it reopened; an entry stays
\* when its request is not closed remotely or when the reopen call fails.
C25_ClosedMapMerged ==
  Running =>
    /\ \A b \in DOMAIN ClosedMapAtStart :
         IF b \in DOMAIN ClosedMapNow
         THEN \/ ClosedMapNow[b] = ClosedMapAtStart[b]
              \/ ClosedInRun(ClosedMapNow[b].pr_number, b)
         ELSE ReopenedInRun(ClosedMapAtStart[b].pr_number)
    /\ \A b \in DOMAIN ClosedMapNow \ DOMAIN ClosedMapAtStart :
         ClosedInRun(ClosedMapNow[b].pr_number, b)

\* a run has saved a changed state, and the entry of a branch that it did not
\* reopen (no revision of the stack has the branch) is in the map as before
C25_EntryKeptBySave ==
  /\ Done /\ exitCode = 0 /\ log.wrote /\ stateFile # last.state
  /\ \E b \in DOMAIN ClosedMapAtStart :
       /\ b \notin ActiveBranches
       /\ b \in DOMAIN ClosedMapNow /\ ClosedMapNow[b] = ClosedMapAtStart[b]

\* the change that has left the stack in SpecOrphan, and its request
ORPHAN == cPQR
ORPHAN_REQUEST == 2
\* a finished run with orphan cleanup enabled in which the repository lookup,
\* the listing of the requests and every close succeeded
CanListAndClose ==
  /\ Done /\ exitCode = 0 /\ CleanupEnabled /\ repoOk
  /\ <<"call", "prlist">> \notin failures
  /\ \A e \in failures : e[1] # "close"

\* C26: once a change with an open managed request recorded in Tracked State
\* has left the stack and stays out of it, the request is closed by the end of
\* the first later run that has orphan cleanup enabled and can list and close
\* requests, whatever the runs in between were and whether or not the local
\* bookmark still exists.
C26_OrphanEventuallyClosed ==
  (CanListAndClose /\ ORPHAN \notin InStack) => prs[ORPHAN_REQUEST].state = "CLOSED"

\* the second run, with cleanup enabled, closed the request that a first run
\* without cleanup had left open; the bookmark is gone
C26_ClosedByLaterRun ==
  /\ CanListAndClose /\ ORPHAN \notin InStack /\ runs = 2
  /\ last.valid /\ last.args.no_close_orphaned
  /\ last.prs[ORPHAN_REQUEST].state = "OPEN"
  /\ prs[ORPHAN_REQUEST].state = "CLOSED"

\* the run issued a close for request n
CloseIssued(n) == \E e \in log.closed : e[1] = n

\* C27: a request that a run reopened is not closed by the same run, and a
\* request that a run closed is not reopened by the run that follows it with
\* nothing changed in between.
C27_NoReopenThenClose ==
  Running =>
    \A n \in DOMAIN prs :
      /\ ReopenedInRun(n) => ~CloseIssued(n)
      /\ (last.valid /\ n \in last.closed) => ~ReopenedInRun(n)

\* a run reopened a request in its push phase, went through its cleanup and
\* left the request open
C27_ReopenedAndKept ==
  /\ Done /\ exitCode = 0 /\ CleanupEnabled
  /\ \E n \in DOMAIN prs : ReopenedInRun(n) /\ ~CloseIssued(n) /\ prs[n].state = "OPEN"

\* a step of close_orphaned_prs
CleanupStep == pc \in {"close", "orphans"}
\* the managed bookmarks that point at commit t, the open requests on them,
\* and those of these that the step marks as same-commit duplicates
NamesAt(t) == {b \in DOMAIN bookmarks : IsManagedBookmark(b) /\ bookmarks[b] = t}
OpenAt(t) == {n \in DOMAIN prs : prs[n].state = "OPEN" /\ prs[n].head \in NamesAt(t)}
MarkedAt(t) == {n \in OpenAt(t) : <<n, R_SAMECOMMIT>> \in log'.closed}
\* a request on commit t with a lower number than every marked one stays unmarked
KeptAt(t) == \E n \in OpenAt(t) \ MarkedAt(t) : \A m \in MarkedAt(t) : n < m

C29_ActiveBranchNotDeleted ==
  (Running /\ args.delete_branches) => log.deleted \cap ActiveBranches = {}

\* a run with --delete-branches deleted the branch of a change that is no
\* longer in the stack and left the branches of the stack on the remote
C29_OrphanBranchDeleted ==
  /\ Done /\ exitCode = 0 /\ args.delete_branches
  /\ log.deleted # {} /\ log.deleted \cap ActiveBranches = {}
  /\ ActiveBranches # {} /\ ActiveBranches \subseteq remote

\* what a step of a run issues
Pushes == log'.pushed # log.pushed
Closes == log'.closed # log.closed
CreatesOrEdits == log'.created # log.created \/ log'.edited # log.edited
Saves == Load(stateFile').prs # Load(stateFile).prs \/ Load(stateFile').bookmarks # Load(stateFile).bookmarks
OldestFirst(order) == \A j, k \in DOMAIN order : j < k => order[j] < order[k]
PhaseOrderStep ==
  /\ Pushes => (log'.closed = {} /\ log'.created = {} /\ log'.edited = {} /\ log'.refreshed = {})
  /\ Closes => (log'.created = {} /\ log'.edited = {} /\ log'.refreshed = {})
  /\ CreatesOrEdits => (log'.refreshed = {} /\ OldestFirst(log'.order))
  /\ (Pushes \/ Closes \/ CreatesOrEdits \/ log'.refreshed # log.refreshed) => (~Saves \/ pc = "orphans")
  /\ Saves => pc' = "done"

\* C30: within a run every push is issued before any close of a request,
\* every close before any create or base edit, creates and base edits are
\* issued in stack order oldest first, body refreshes follow all creates, and
\* the state save is the last mutation of the run.
C30_PhaseOrdering == [][Running => PhaseOrderStep]_vars

\* a run has pushed, closed a request, issued creates or base edits for two
\* revisions, refreshed the bodies and saved the state
C30_AllPhasesTaken ==
  /\ Done /\ exitCode = 0 /\ stateFile # last.state
  /\ log.pushed # {} /\ log.closed # {} /\ Len(log.order) >= 2 /\ log.refreshed # {}

\* the batched push of the revisions without a branch was issued in this run
\* and failed
BatchPushFailed == log.batch # <<>> /\ <<"call", "push_new">> \in failures

\* C31: a failed batched push of the 'create' revisions is fatal: the run
\* ends with exit code 1, and after the failure no review request is closed,
\* created or edited and Tracked State is not saved (the only earlier writes
\* of the run are those of a reopening, which removes entries of the
\* closed-requests map).
C31_FailedBatchPushIsFatal ==
  BatchPushFailed =>
    /\ Done /\ exitCode = 1
    /\ log.closed = {} /\ log.created = {} /\ log.edited = {} /\ log.refreshed = {}
    /\ DOMAIN prs = DOMAIN last.prs
    /\ \A n \in DOMAIN prs :
         /\ prs[n].head = last.prs[n].head /\ prs[n].base = last.prs[n].base
         /\ prs[n].state = "CLOSED" => last.prs[n].state = "CLOSED"
    /\ Load(stateFile).prs = Load(last.state).prs
    /\ Load(stateFile).bookmarks = Load(last.state).bookmarks
    /\ \A b \in DOMAIN Load(stateFile).closed :
         /\ b \in DOMAIN Load(last.state).closed
         /\ Load(stateFile).closed[b] = Load(last.state).closed[b]

\* a run over a stack with an orphaned open request and a new revision, whose
\* batched push failed: the orphan is still open and the file is as it was
C31_FailedWithWorkLeft ==
  /\ BatchPushFailed /\ Done /\ ReviewsEnabled /\ ~args.no_close_orphaned
  /\ stateFile.kind = "doc" /\ stateFile = last.state
  /\ \E n \in DOMAIN prs :
       /\ prs[n].state = "OPEN"
       /\ \A i \in DOMAIN revisions : revisions[i].branch_name # prs[n].head
  /\ \E i \in DOMAIN revisions : revisions[i].branch_name = NoName

\* the positions of the queried range whose revision has content changes and
\* a description that is not empty
Publishable == {i \in WithContent : range[i].desc # ""}
\* the run has read the range: `jj log` answered
RangeRead == Running /\ <<"call", "jjlog">> \notin failures /\ INTERRUPTED \notin failures
\* the positions of the stack that hold the change cid
StackPositions(cid) == {k \in DOMAIN revisions : revisions[k].change_id = cid}

\* C32: every revision of the queried range that has content changes and a
\* non-empty description is part of the stack, whatever the text of its
\* description is (a first line that reads exactly EMPTY included); the stack
\* keeps these revisions oldest first (the range lists them newest first); and
\* in a run that has pushed and ended with code 0 each of them has a branch.
C32_DescribedRevisionsInStack ==
  RangeRead =>
    /\ \A i \in Publishable : StackPositions(range[i].change_id) # {}
    /\ \A i, j \in Publishable :
         i < j => \A k \in StackPositions(range[i].change_id),
                     l \in StackPositions(range[j].change_id) : l < k
    /\ (Done /\ exitCode = 0 /\ ~args.dry_run) =>
         \A i \in Publishable :
           \E k \in StackPositions(range[i].change_id) : revisions[k].branch_name # NoName

\* a finished run over two revisions with content and a text: both are in the
\* stack, the older one first, each with its branch
C32_TwoDescribedPublished ==
  /\ RangeRead /\ Done /\ exitCode = 0 /\ ~args.dry_run
  /\ Len(range) = 2 /\ Publishable = {1, 2} /\ Len(revisions) = 2
  /\ revisions[1].change_id = range[2].change_id
  /\ revisions[2].change_id = range[1].change_id
  /\ \A k \in {1, 2} : revisions[k].branch_name # NoName

====
